---- MODULE Spec2Model ----
(***************************************************************************)
(* create_cyclic_pattern.py: a mixed-radix odometer over an alphabet.      *)
(*                                                                         *)
(* Every statement of create_cyclic_pattern is an operator from the state  *)
(* of one call to its state after the statement; the actions execute one   *)
(* statement of one call.  A string is the sequence of its characters.     *)
(* Python positions are 0-based, TLA+ sequences 1-based: Python's          *)
(* indices[i] is indices[i + 1] here.                                      *)
(***************************************************************************)
EXTENDS Integers, Sequences, FiniteSets, TLC

VARIABLES call, heap, stdout, main

vars == <<call, heap, stdout, main>>

(* ------------------------------ bounds --------------------------------- *)

\* num_patterns is drawn from -1 .. MaxNum, pattern_length from -1 .. MaxLen
MaxNum == 10
MaxLen == 3
\* the same for two calls that run interleaved
ConcMaxNum == 3
ConcMaxLen == 2

Calls == {1, 2}

Charsets == { <<>>, <<"A">>, <<"A", "B">>, <<"0", "1", "2">> }

Args(cs, n, len) ==
    [input_charset |-> cs, num_patterns |-> n, pattern_length |-> len]

\* the two examples of the docstring
Examples == { Args(<<"A", "B">>, 5, 4), Args(<<"0", "1", "2">>, 4, 2) }

Inputs ==
    { Args(cs, n, len) : cs \in Charsets, n \in -1 .. MaxNum, len \in -1 .. MaxLen }
        \cup Examples

ConcInputs ==
    { Args(cs, n, len) : cs \in Charsets, n \in 0 .. ConcMaxNum, len \in 0 .. ConcMaxLen }
        \cup { Args(<<"A", "B">>, 3, 2) }

(* --------------------------- the messages ------------------------------ *)

WarnCharset == "Warning: input_charset cannot be empty."
WarnNumPatterns == "Warning: num_patterns must be a positive integer."
WarnPatternLength == "Warning: pattern_length must be a positive integer."

(* ------------------------- state of one call --------------------------- *)

\* The frame of a call before its first statement: nothing bound yet.
Entry(a) ==
    [ pc |-> "check_charset",
      input_charset |-> a.input_charset,
      num_patterns |-> a.num_patterns,
      pattern_length |-> a.pattern_length,
      base |-> 0, n |-> 0, i |-> 0, it |-> 0,
      ret |-> <<>>, diag |-> <<>>,
      lookups |-> 0, incs |-> 0, scans |-> 0,
      bound |-> FALSE, indices |-> <<>>, generated_patterns |-> <<>> ]

Idle == [Entry(Args(<<>>, 0, 0)) EXCEPT !.pc = "idle"]

Halted == {"done", "IndexError", "idle"}

\* "".join([input_charset[i] for i in indices])
Render(input_charset, indices) ==
    [j \in 1 .. Len(indices) |-> input_charset[indices[j] + 1]]

(* --------------------------- the statements ---------------------------- *)

\* if not input_charset: print(...); return []
CheckCharset(s) ==
    IF Len(s.input_charset) = 0
    THEN [s EXCEPT !.diag = Append(@, WarnCharset), !.ret = <<>>, !.pc = "done"]
    ELSE [s EXCEPT !.pc = "check_num"]

\* `<` for `<=`: a count of 0 is let through
CheckNumPatternsStrict(s) ==
    IF s.num_patterns < 0
    THEN [s EXCEPT !.diag = Append(@, WarnNumPatterns), !.ret = <<>>, !.pc = "done"]
    ELSE [s EXCEPT !.pc = "check_len"]

\* the second check tests the length, as the third does
CheckNumPatternsAsLength(s) ==
    IF s.pattern_length <= 0
    THEN [s EXCEPT !.diag = Append(@, WarnPatternLength), !.ret = <<>>, !.pc = "done"]
    ELSE [s EXCEPT !.pc = "check_len"]

\* if num_patterns <= 0: print(...); return []
CheckNumPatterns(s) ==
    IF s.num_patterns <= 0
    THEN [s EXCEPT !.diag = Append(@, WarnNumPatterns), !.ret = <<>>, !.pc = "done"]
    ELSE [s EXCEPT !.pc = "check_len"]

\* if pattern_length <= 0: print(...); return []
CheckPatternLength(s) ==
    IF s.pattern_length <= 0
    THEN [s EXCEPT !.diag = Append(@, WarnPatternLength), !.ret = <<>>, !.pc = "done"]
    ELSE [s EXCEPT !.pc = "init"]

\* base = len(input_charset); indices = [0] * pattern_length; generated_patterns = []
Initialize(s) ==
    [s EXCEPT !.base = Len(s.input_charset),
              !.indices = [j \in 1 .. s.pattern_length |-> 0],
              !.generated_patterns = <<>>,
              !.bound = TRUE,
              !.n = 0,
              !.pc = "loop"]

\* range(num_patterns + 1): one iteration too many
LoopHeadOffByOne(s) ==
    IF s.n <= s.num_patterns
    THEN [s EXCEPT !.n = @ + 1, !.pc = "emit"]
    ELSE [s EXCEPT !.pc = "return"]

\* for _ in range(num_patterns):  (n counts the iterations begun)
LoopHead(s) ==
    IF s.n < s.num_patterns
    THEN [s EXCEPT !.n = @ + 1, !.pc = "emit"]
    ELSE [s EXCEPT !.pc = "return"]

\* the increment skipped after the last pattern
EmitPatternNoFinalScan(s) ==
    IF \E j \in 1 .. Len(s.indices) : s.indices[j] >= Len(s.input_charset)
    THEN [s EXCEPT !.pc = "IndexError"]
    ELSE [s EXCEPT !.generated_patterns = Append(@, Render(s.input_charset, s.indices)),
                   !.lookups = @ + Len(s.indices),
                   !.pc = IF s.n = s.num_patterns THEN "loop" ELSE "scan"]

\* current_pattern = "".join(...); generated_patterns.append(current_pattern)
\* A digit outside the alphabet makes input_charset[i] raise IndexError.
EmitPattern(s) ==
    IF \E j \in 1 .. Len(s.indices) : s.indices[j] >= Len(s.input_charset)
    THEN [s EXCEPT !.pc = "IndexError"]
    ELSE [s EXCEPT !.generated_patterns = Append(@, Render(s.input_charset, s.indices)),
                   !.lookups = @ + Len(s.indices),
                   !.pc = "scan"]

\* for i in range(pattern_length - 1, -1, -1):  the range is created
ScanStart(s) ==
    [s EXCEPT !.it = s.pattern_length - 1, !.scans = @ + 1, !.pc = "next"]

\* generation ends when the carry leaves the most significant digit
ScanNextStops(s) ==
    IF s.it >= 0
    THEN [s EXCEPT !.i = s.it, !.it = @ - 1, !.pc = "incr"]
    ELSE [s EXCEPT !.pc = "return"]

\* ... and asked for its next value; exhausted, the outer loop goes on
ScanNext(s) ==
    IF s.it >= 0
    THEN [s EXCEPT !.i = s.it, !.it = @ - 1, !.pc = "incr"]
    ELSE [s EXCEPT !.pc = "loop"]

\* indices[i] += 1   (a position the list does not have raises IndexError)
IncrementDigit(s) ==
    IF s.i + 1 \notin DOMAIN s.indices
    THEN [s EXCEPT !.pc = "IndexError"]
    ELSE [s EXCEPT !.indices[s.i + 1] = @ + 1, !.incs = @ + 1, !.pc = "carry"]

\* the break forgotten: the scan goes on to the next digit either way
CarryTestNoBreak(s) ==
    IF s.i + 1 \notin DOMAIN s.indices
    THEN [s EXCEPT !.pc = "IndexError"]
    ELSE IF s.indices[s.i + 1] < s.base
         THEN [s EXCEPT !.pc = "next"]
         ELSE [s EXCEPT !.indices[s.i + 1] = 0, !.pc = "next"]

\* the carry forgotten: the digit is reset and the scan ends
CarryTestNoCarry(s) ==
    IF s.i + 1 \notin DOMAIN s.indices
    THEN [s EXCEPT !.pc = "IndexError"]
    ELSE IF s.indices[s.i + 1] < s.base
         THEN [s EXCEPT !.pc = "loop"]
         ELSE [s EXCEPT !.indices[s.i + 1] = 0, !.pc = "loop"]

\* `<=` for `<`: a digit equal to base is kept
CarryTestInclusive(s) ==
    IF s.i + 1 \notin DOMAIN s.indices
    THEN [s EXCEPT !.pc = "IndexError"]
    ELSE IF s.indices[s.i + 1] <= s.base
         THEN [s EXCEPT !.pc = "loop"]
         ELSE [s EXCEPT !.indices[s.i + 1] = 0, !.pc = "next"]

\* if indices[i] < base: break   else: indices[i] = 0
CarryTest(s) ==
    IF s.i + 1 \notin DOMAIN s.indices
    THEN [s EXCEPT !.pc = "IndexError"]
    ELSE IF s.indices[s.i + 1] < s.base
         THEN [s EXCEPT !.pc = "loop"]
         ELSE [s EXCEPT !.indices[s.i + 1] = 0, !.pc = "next"]

\* return generated_patterns
Return(s) ==
    [s EXCEPT !.ret = s.generated_patterns, !.pc = "done"]

\* The statement a call is at.
Statement(s) ==
    CASE s.pc = "check_charset" -> CheckCharset(s)
      [] s.pc = "check_num"     -> CheckNumPatterns(s)
      [] s.pc = "check_len"     -> CheckPatternLength(s)
      [] s.pc = "init"          -> Initialize(s)
      [] s.pc = "loop"          -> LoopHead(s)
      [] s.pc = "emit"          -> EmitPattern(s)
      [] s.pc = "scan"          -> ScanStart(s)
      [] s.pc = "next"          -> ScanNext(s)
      [] s.pc = "incr"          -> IncrementDigit(s)
      [] s.pc = "carry"         -> CarryTest(s)
      [] s.pc = "return"        -> Return(s)
      [] OTHER                  -> s

RECURSIVE Run(_)
Run(s) == IF s.pc \in Halted THEN s ELSE Run(Statement(s))

\* One call from entry to return, nothing else running.
RunAlone(a) == Run(Entry(a))

(* ----------------------- calls and their frames ------------------------ *)

\* the lists kept at module level: every call uses the same two
LocalsOfShared(p) == 1

\* indices and generated_patterns are local names: every call binds them to
\* lists of its own.
LocalsOf(p) == p

Unbound == [bound |-> FALSE, indices |-> <<>>, generated_patterns |-> <<>>]

ControlOf(s) ==
    [ pc |-> s.pc, input_charset |-> s.input_charset,
      num_patterns |-> s.num_patterns, pattern_length |-> s.pattern_length,
      base |-> s.base, n |-> s.n, i |-> s.i, it |-> s.it,
      ret |-> s.ret, diag |-> s.diag,
      lookups |-> s.lookups, incs |-> s.incs, scans |-> s.scans ]

ListsOf(s) ==
    [bound |-> s.bound, indices |-> s.indices, generated_patterns |-> s.generated_patterns]

\* What call p sees: its control state and the lists its names are bound to.
View(p) ==
    [ pc |-> call[p].pc, input_charset |-> call[p].input_charset,
      num_patterns |-> call[p].num_patterns, pattern_length |-> call[p].pattern_length,
      base |-> call[p].base, n |-> call[p].n, i |-> call[p].i, it |-> call[p].it,
      ret |-> call[p].ret, diag |-> call[p].diag,
      lookups |-> call[p].lookups, incs |-> call[p].incs, scans |-> call[p].scans,
      bound |-> heap[LocalsOf(p)].bound,
      indices |-> heap[LocalsOf(p)].indices,
      generated_patterns |-> heap[LocalsOf(p)].generated_patterns ]

Line(text) == [kind |-> "text", text |-> text, items |-> <<>>]
Listing(items) == [kind |-> "list", text |-> "", items |-> items]

\* print(...) of the messages a statement added
Printed(s, t) ==
    [j \in 1 .. (Len(t.diag) - Len(s.diag)) |-> Line(t.diag[Len(s.diag) + j])]

\* Call p, at statement label, executes it.
Exec(p, label) ==
    /\ call[p].pc = label
    /\ LET s == View(p)
           t == Statement(s)
       IN  /\ call' = [call EXCEPT ![p] = ControlOf(t)]
           /\ heap' = [heap EXCEPT ![LocalsOf(p)] = ListsOf(t)]
           /\ stdout' = stdout \o Printed(s, t)
    /\ UNCHANGED main

DoCheckCharset == \E p \in Calls : Exec(p, "check_charset")
DoCheckNumPatterns == \E p \in Calls : Exec(p, "check_num")
DoCheckPatternLength == \E p \in Calls : Exec(p, "check_len")
DoInitialize == \E p \in Calls : Exec(p, "init")
DoLoopHead == \E p \in Calls : Exec(p, "loop")
DoEmitPattern == \E p \in Calls : Exec(p, "emit")
DoScanStart == \E p \in Calls : Exec(p, "scan")
DoScanNext == \E p \in Calls : Exec(p, "next")
DoIncrementDigit == \E p \in Calls : Exec(p, "incr")
DoCarryTest == \E p \in Calls : Exec(p, "carry")
DoReturn == \E p \in Calls : Exec(p, "return")

CallNext ==
    \/ DoCheckCharset
    \/ DoCheckNumPatterns
    \/ DoCheckPatternLength
    \/ DoInitialize
    \/ DoLoopHead
    \/ DoEmitPattern
    \/ DoScanStart
    \/ DoScanNext
    \/ DoIncrementDigit
    \/ DoCarryTest
    \/ DoReturn

(* --------------------- the module run as a script ---------------------- *)

\* the names the module binds at its top level
Globals == {"create_cyclic_pattern"}

alphabet ==
    << "A", "B", "C", "D", "E", "F", "G", "H", "I", "J", "K", "L", "M",
       "N", "O", "P", "Q", "R", "S", "T", "U", "V", "W", "X", "Y", "Z" >>
binary_charset == <<"0", "1">>
hex_charset ==
    << "0", "1", "2", "3", "4", "5", "6", "7",
       "8", "9", "A", "B", "C", "D", "E", "F" >>

\* the three examples under `if __name__ == '__main__':`, each a call by name
Script ==
    << [callee |-> "create_cyclic_pattern", args |-> Args(alphabet, 2, 4),
        header |-> "Example from prompt"],
       [callee |-> "generate_cyclic_pattern", args |-> Args(binary_charset, 8, 4),
        header |-> "Binary example"],
       [callee |-> "generate_cyclic_pattern", args |-> Args(hex_charset, 20, 2),
        header |-> "Hexadecimal example"] >>

Dashes == "--------------------"

Off == [stmt |-> 0, phase |-> "off"]

\* x = f(...) with f bound: the call begins (the script runs it in slot 1)
MainCall ==
    /\ main.phase = "call"
    /\ Script[main.stmt].callee \in Globals
    /\ call' = [call EXCEPT ![1] = ControlOf(Entry(Script[main.stmt].args))]
    /\ heap' = [heap EXCEPT ![LocalsOf(1)] = Unbound]
    /\ main' = [main EXCEPT !.phase = "wait"]
    /\ UNCHANGED stdout

\* x = f(...) with f not bound: NameError, which nothing catches
MainNameError ==
    /\ main.phase = "call"
    /\ Script[main.stmt].callee \notin Globals
    /\ main' = [main EXCEPT !.phase = "NameError"]
    /\ UNCHANGED <<call, heap, stdout>>

\* the call has returned: the three print(...) lines, then the next example
MainPrint ==
    /\ main.phase = "wait"
    /\ call[1].pc = "done"
    /\ stdout' = stdout \o << Line(Script[main.stmt].header),
                              Listing(call[1].ret),
                              Line(Dashes) >>
    /\ main' = IF main.stmt = Len(Script)
               THEN [main EXCEPT !.phase = "exit"]
               ELSE [stmt |-> main.stmt + 1, phase |-> "call"]
    /\ UNCHANGED <<call, heap>>

(* ------------------------- the specifications -------------------------- *)

\* one call with arguments of the caller's choosing
InitCall ==
    /\ main = Off
    /\ stdout = <<>>
    /\ heap = [f \in Calls |-> Unbound]
    /\ \E a \in Inputs : call = [p \in Calls |-> IF p = 1 THEN ControlOf(Entry(a))
                                                          ELSE ControlOf(Idle)]

\* python create_cyclic_pattern.py
InitScript ==
    /\ main = [stmt |-> 1, phase |-> "call"]
    /\ stdout = <<>>
    /\ heap = [f \in Calls |-> Unbound]
    /\ call = [p \in Calls |-> ControlOf(Idle)]

\* two calls with different arguments, interleaved statement by statement
InitConc ==
    /\ main = Off
    /\ stdout = <<>>
    /\ heap = [f \in Calls |-> Unbound]
    /\ \E a \in ConcInputs, b \in ConcInputs :
          /\ a # b
          /\ call = [p \in Calls |-> IF p = 1 THEN ControlOf(Entry(a))
                                              ELSE ControlOf(Entry(b))]

Init == InitCall \/ InitScript

Next ==
    \/ CallNext
    \/ MainCall
    \/ MainNameError
    \/ MainPrint

Spec == Init /\ [][Next]_vars

ConcSpec == InitConc /\ [][CallNext]_vars

\* a call that can take a step takes it
FairSpec == InitCall /\ [][CallNext]_vars /\ WF_vars(CallNext)

(* ---------------------- vocabulary of the claims ----------------------- *)

RECURSIVE Pow(_, _)
Pow(b, e) == IF e <= 0 THEN 1 ELSE b * Pow(b, e - 1)

\* v written in base b with exactly len digits, most significant first
DigitsOf(v, b, len) == [j \in 1 .. len |-> (v \div Pow(b, len - j)) % b]

\* the digit a symbol stands for (the alphabets drawn have distinct symbols)
DigitOf(cs, ch) == CHOOSE d \in 0 .. Len(cs) - 1 : cs[d + 1] = ch

Decode(cs, pattern) == [j \in 1 .. Len(pattern) |-> DigitOf(cs, pattern[j])]

\* how many digits at the least significant end are at b - 1
TrailingMax(d, b) ==
    CHOOSE z \in 0 .. Len(d) :
        /\ \A j \in (Len(d) - z + 1) .. Len(d) : d[j] = b - 1
        /\ z < Len(d) => d[Len(d) - z] # b - 1

\* the carry rule: trailing b-1 digits become 0, the digit before them gains 1,
\* the more significant digits stay; all digits at b-1 gives all zeros
CarrySucc(d, b) ==
    LET z == TrailingMax(d, b)
    IN  [j \in 1 .. Len(d) |->
            IF j > Len(d) - z THEN 0
            ELSE IF j = Len(d) - z THEN d[j] + 1
            ELSE d[j]]

Valid(a) ==
    /\ Len(a.input_charset) > 0
    /\ a.num_patterns > 0
    /\ a.pattern_length > 0

ArgsOf(p) == Args(call[p].input_charset, call[p].num_patterns, call[p].pattern_length)

Active == {p \in Calls : call[p].pc # "idle"}

Returned(p) == call[p].pc = "done"

Validating == {"check_charset", "check_num", "check_len"}

\* the message of the earliest check that fails
FirstFailure(a) ==
    IF Len(a.input_charset) = 0 THEN WarnCharset
    ELSE IF a.num_patterns <= 0 THEN WarnNumPatterns
    ELSE WarnPatternLength

(* ------------------------------ claims --------------------------------- *)

\* C1: for valid arguments, element k of the returned list is the integer
\* k mod base^pattern_length written in base `base` with pattern_length
\* digits, most significant first, each digit mapped through the alphabet.
C1_KthPatternIsK ==
    \A p \in Active :
        Returned(p) /\ Valid(call[p]) =>
            \A k \in 0 .. call[p].num_patterns - 1 :
                /\ k + 1 \in DOMAIN call[p].ret
                /\ call[p].ret[k + 1] =
                      Render(call[p].input_charset,
                             DigitsOf(k % Pow(Len(call[p].input_charset), call[p].pattern_length),
                                      Len(call[p].input_charset),
                                      call[p].pattern_length))

C1_Witness ==
    \E p \in Active :
        /\ Returned(p)
        /\ ArgsOf(p) = Args(<<"A", "B">>, 5, 4)
        /\ call[p].ret = << <<"A", "A", "A", "A">>, <<"A", "A", "A", "B">>,
                            <<"A", "A", "B", "A">>, <<"A", "A", "B", "B">>,
                            <<"A", "B", "A", "A">> >>

\* C2: for valid arguments the returned list has exactly num_patterns
\* elements, each of length pattern_length, each character a symbol of the
\* alphabet.
C2_ShapeOfResult ==
    \A p \in Active :
        Returned(p) /\ Valid(call[p]) =>
            /\ Len(call[p].ret) = call[p].num_patterns
            /\ \A k \in DOMAIN call[p].ret :
                  /\ Len(call[p].ret[k]) = call[p].pattern_length
                  /\ \A j \in DOMAIN call[p].ret[k] :
                        \E c \in DOMAIN call[p].input_charset :
                            call[p].ret[k][j] = call[p].input_charset[c]

C2_Witness ==
    \E p \in Active :
        /\ Returned(p)
        /\ Valid(call[p])
        /\ call[p].num_patterns >= 3
        /\ call[p].pattern_length >= 2
        /\ Len(call[p].ret) = call[p].num_patterns

\* C3: with an empty alphabet, num_patterns <= 0 or pattern_length <= 0 the
\* call returns the empty list, never a partial one, prints exactly one
\* message and raises nothing; with valid arguments it prints no message.
C3_InvalidGivesEmptyAndOneMessage ==
    /\ \A p \in Active :
          /\ ~Valid(call[p]) =>
                /\ call[p].pc \in Validating \cup {"done"}
                /\ heap[LocalsOf(p)].generated_patterns = <<>>
                /\ Returned(p) => call[p].ret = <<>> /\ Len(call[p].diag) = 1
          /\ Valid(call[p]) => call[p].diag = <<>>
    /\ main = Off => Len(stdout) = Len(call[1].diag) + Len(call[2].diag)

C3_Witness ==
    \E p \in Active :
        /\ Returned(p)
        /\ Len(call[p].input_charset) > 0
        /\ call[p].num_patterns > 0
        /\ call[p].pattern_length <= 0
        /\ call[p].ret = <<>>
        /\ stdout = <<Line(WarnPatternLength)>>

\* C4: the three checks run before any list is created or any pattern is
\* rendered, in the order alphabet, num_patterns, pattern_length; the first
\* that fails ends the call, and its message is the only one printed.
C4_ChecksInOrderFirstFailureWins ==
    \A p \in Active :
        /\ (call[p].pc \in Validating \/ (Returned(p) /\ ~Valid(call[p]))) =>
              /\ ~heap[LocalsOf(p)].bound
              /\ heap[LocalsOf(p)].indices = <<>>
              /\ heap[LocalsOf(p)].generated_patterns = <<>>
              /\ call[p].lookups = 0
              /\ call[p].incs = 0
        /\ call[p].pc = "check_num" => Len(call[p].input_charset) > 0
        /\ call[p].pc = "check_len" =>
              Len(call[p].input_charset) > 0 /\ call[p].num_patterns > 0
        /\ call[p].pc = "init" => Valid(call[p])
        /\ (Returned(p) /\ ~Valid(call[p])) =>
              call[p].diag = <<FirstFailure(call[p])>>

C4_Witness ==
    \E p \in Active :
        /\ Returned(p)
        /\ Len(call[p].input_charset) > 0
        /\ call[p].num_patterns = 0
        /\ call[p].pattern_length = 0
        /\ call[p].diag = <<WarnNumPatterns>>
        /\ ~heap[LocalsOf(p)].bound

\* C5: for valid arguments each element of the result is the successor of
\* the one before it under the carry rule.
C5_ConsecutiveAreSuccessors ==
    \A p \in Active :
        Returned(p) /\ Valid(call[p]) =>
            \A k \in 1 .. Len(call[p].ret) - 1 :
                Decode(call[p].input_charset, call[p].ret[k + 1]) =
                    CarrySucc(Decode(call[p].input_charset, call[p].ret[k]),
                              Len(call[p].input_charset))

C5_Witness ==
    \E p \in Active :
        /\ Returned(p)
        /\ ArgsOf(p) = Args(<<"0", "1", "2">>, 4, 2)
        /\ call[p].ret = << <<"0", "0">>, <<"0", "1">>, <<"0", "2">>, <<"1", "0">> >>

\* C6: when the carry leaves position 0 the digits are all zero and
\* generation goes on: nothing is raised, the result still has num_patterns
\* elements, and with num_patterns > base^pattern_length the element at
\* position base^pattern_length equals the first one (base 1 included).
C6_WrapsAndGoesOn ==
    \A p \in Active :
        Valid(call[p]) =>
            /\ call[p].pc # "IndexError"
            /\ (call[p].pc = "next" /\ call[p].it < 0) =>
                  \A j \in DOMAIN heap[LocalsOf(p)].indices :
                      heap[LocalsOf(p)].indices[j] = 0
            /\ Returned(p) =>
                  /\ Len(call[p].ret) = call[p].num_patterns
                  /\ call[p].num_patterns >
                        Pow(Len(call[p].input_charset), call[p].pattern_length) =>
                        call[p].ret[Pow(Len(call[p].input_charset),
                                        call[p].pattern_length) + 1] = call[p].ret[1]

C6_Witness ==
    \E p \in Active :
        /\ Returned(p)
        /\ ArgsOf(p) = Args(<<"0", "1", "2">>, 10, 2)
        /\ call[p].ret[10] = <<"0", "0">>
        /\ call[p].ret[9] = <<"2", "2">>

\* C7: two calls with different arguments, their statements interleaved in
\* any order, each return the list (and print the messages) they return and
\* print when run alone, and neither raises.
C7_InterleavedCallsReturnAsAlone ==
    \A p \in Active :
        /\ call[p].pc # "IndexError"
        /\ Returned(p) =>
              /\ call[p].ret = RunAlone(ArgsOf(p)).ret
              /\ call[p].diag = RunAlone(ArgsOf(p)).diag

C7_Witness ==
    /\ Active = Calls
    /\ \A p \in Calls : Returned(p) /\ Valid(call[p]) /\ call[p].pattern_length >= 2
    /\ ArgsOf(1) # ArgsOf(2)
    /\ call[1].ret # call[2].ret

\* C8: run as a script, the module performs its three example generations
\* in order, prints the patterns of each (the second: 0000 ... 0111) and
\* exits normally, with no unhandled fault.
C8_ScriptRunsAllExamples ==
    /\ main.phase # "NameError"
    /\ main.phase = "exit" =>
          /\ Len(stdout) = 9
          /\ stdout[5] = Listing([k \in 1 .. 8 |->
                                    Render(binary_charset, DigitsOf(k - 1, 2, 4))])

\* C9 as stated: at every point of generation, the points between
\* `indices[i] += 1` and the test that follows it included, every digit is
\* in 0 .. base - 1.
C9_DigitsAlwaysBelowBase ==
    \A p \in Active :
        heap[LocalsOf(p)].bound =>
            \A j \in DOMAIN heap[LocalsOf(p)].indices :
                /\ 0 <= heap[LocalsOf(p)].indices[j]
                /\ heap[LocalsOf(p)].indices[j] < call[p].base

\* C9 as amended: every digit is in 0 .. base - 1 at every point of
\* generation except between `indices[i] += 1` and the test that follows
\* it, where the digit just incremented (and only it) may equal base.
C9_DigitsBelowBaseOutsideCarryTest ==
    \A p \in Active :
        heap[LocalsOf(p)].bound =>
            \A j \in DOMAIN heap[LocalsOf(p)].indices :
                /\ 0 <= heap[LocalsOf(p)].indices[j]
                /\ heap[LocalsOf(p)].indices[j] <= call[p].base
                /\ heap[LocalsOf(p)].indices[j] = call[p].base =>
                      call[p].pc = "carry" /\ j = call[p].i + 1

C9_Witness ==
    \E p \in Active :
        /\ call[p].pc = "carry"
        /\ call[p].base >= 2
        /\ call[p].i = 0
        /\ heap[LocalsOf(p)].indices[1] = call[p].base

\* C10: every call ends; a call with valid arguments has then done exactly
\* num_patterns * pattern_length alphabet lookups, at most
\* num_patterns * pattern_length executions of `indices[i] += 1`, and one
\* increment scan per emitted pattern, the last pattern included.
C10_TerminatesWithBoundedWork ==
    /\ <>(\A p \in Active : Returned(p))
    /\ [](\A p \in Active :
            /\ call[p].incs <= call[p].scans * call[p].pattern_length
            /\ Returned(p) /\ Valid(call[p]) =>
                  /\ call[p].lookups = call[p].num_patterns * call[p].pattern_length
                  /\ call[p].incs <= call[p].num_patterns * call[p].pattern_length
                  /\ call[p].scans = call[p].num_patterns)

C10_Witness ==
    \E p \in Active :
        /\ Returned(p)
        /\ Valid(call[p])
        /\ call[p].num_patterns >= 3
        /\ call[p].pattern_length >= 2
        /\ call[p].scans = call[p].num_patterns
        /\ call[p].incs < call[p].num_patterns * call[p].pattern_length

====
